---------------------------- MODULE Spec2Model ----------------------------
(***************************************************************************)
(* A model of zapcli.zap_helper.ZAPHelper (src/zapcli/zap_helper.py): the  *)
(* daemon lifecycle (start, shutdown, is_running), the scan jobs           *)
(* (run_spider, run_active_scan) and the scanner selection                 *)
(* (enable_scanners and its helpers).                                      *)
(*                                                                         *)
(* A behaviour is one call of one method.  The method runs step by step    *)
(* (pc), and the engine on the other side of the control API changes       *)
(* between the steps: the control port, the clock, the job status and the  *)
(* enabled scanners are the engine's, not the helper's.                    *)
(*                                                                         *)
(* A ZAPError is recorded in outcome by the name the specification gives   *)
(* it; the message the code raises is quoted where it is raised.           *)
(***************************************************************************)
EXTENDS Integers, Sequences, FiniteSets, TLC

VARIABLES
    op,             \* the method called: "none" before the call
    pc,             \* the position in the method; "idle" before, "done" after
    outcome,        \* "none" while running, "returned", or the error raised
    \* ---- daemon lifecycle
    port,           \* what answers at proxy_url (the engine, a stranger, nothing)
    now,            \* time.time(), in seconds since the call
    timeout_time,   \* the local timeout_time of start() and shutdown()
    spawns,         \* subprocess.Popen calls made
    shutdownCalls,  \* zap.core.shutdown calls made
    nProbes,        \* is_running() calls made
    nSleeps,        \* time.sleep(2) calls made
    lastProbe,      \* what the last is_running() call did
    lastEvent,      \* the last thing the method did
    probedPort,     \* what the last is_running() call met at proxy_url
    reading,        \* what time.time() returned to the last deadline test
    \* ---- scan jobs
    spiderStatus,   \* what zap.spider.status() answers now
    ascanStatus,    \* what zap.ascan.status() answers now
    scan_id,        \* the local scan_id of run_active_scan()
    tested,         \* the sample the last loop condition tested
    logged,         \* the sample the last progress line showed
    iterProbes,     \* status() calls made since the last loop condition began
    everProbed,     \* a status() call was made
    everLogged,     \* a progress line was written
    everSlept,      \* time.sleep(status_check_sleep) was called
    \* ---- scanner selection
    enabled,        \* the engine's enabled scanners (ids, as strings)
    scanners,       \* the argument of enable_scanners()
    idx,            \* the tokens of scanners the for loop has taken
    scanner_ids,    \* the local scanner_ids of enable_scanners()
    calls,          \* the remote ascan calls the method has made, in order
    oob,            \* changes other clients made to the scanners during the call
    group_arg,      \* the argument of enable_scanners_by_group()
    errorGroups,    \* the group names the 'Invalid group' message lists
    \* ---- alerts
    findings,       \* what zap.core.alerts() answers: the findings' risk labels
    alert_level,    \* the argument of alerts()
    result,         \* what alerts() returned
    \* ---- exclusions and sessions
    exclude_regex,  \* the argument of exclude_from_all()
    exclCalls,      \* the remote exclusion calls made, in order
    file_path,      \* the argument of load_session()
    fs,             \* what the local file system holds at each path
    statKind,       \* what os.path.isfile found at file_path when it looked
    sessionCalls    \* the remote core.load_session calls made, in order

lifeVars == <<port, now, timeout_time, spawns, shutdownCalls, nProbes, nSleeps,
              lastProbe, lastEvent, probedPort, reading>>
scanVars == <<spiderStatus, ascanStatus, scan_id, tested, logged, iterProbes,
              everProbed, everLogged, everSlept>>
selVars  == <<enabled, scanners, idx, scanner_ids, calls, oob>>
grpVars  == <<group_arg, errorGroups>>
alertVars == <<findings, alert_level, result>>
facadeVars == <<exclude_regex, exclCalls, file_path, fs, statKind, sessionCalls>>
restVars == <<grpVars, alertVars, facadeVars>>
vars     == <<op, pc, outcome, lifeVars, scanVars, selVars, restVars>>

Range(s) == {s[i] : i \in 1..Len(s)}

(***************************************************************************)
(* Bounds of the model.                                                    *)
(***************************************************************************)
\* Seconds the clock may run ahead of the sleeps (time spent in urlopen,
\* in Popen, in the scheduler) during one call.
MaxDrift == 3
\* The longest selection handed to enable_scanners.
MaxSel == 3
\* Changes other clients may make to the scanners during one call.
MaxOob == 1
\* The most findings zap.core.alerts() answers.
MaxAlerts == 3
\* The longest pattern handed to exclude_from_all, in characters.
MaxPatLen == 3

(***************************************************************************)
(* Daemon lifecycle                                                        *)
(***************************************************************************)
\* ZAPHelper.timeout
timeout == 60
\* the argument of time.sleep in the waits of start() and shutdown()
SleepSecs == 2

\* What urllib2.urlopen(proxy_url) can meet.  connects: a TCP connection and
\* an HTTP response were obtained (otherwise urlopen raises URLError).
\* httpOk: the response status is a success; for any other status urlopen
\* raises HTTPError, which is a subclass of URLError.  acah: the values of
\* the Access-Control-Allow-Headers header, <<>> when the header is absent.
Refused       == [connects |-> FALSE, httpOk |-> FALSE, acah |-> <<>>]
ZapDaemon     == [connects |-> TRUE,  httpOk |-> TRUE,  acah |-> <<"ZAP-Header">>]
ForeignPlain  == [connects |-> TRUE,  httpOk |-> TRUE,  acah |-> <<>>]
ForeignCors   == [connects |-> TRUE,  httpOk |-> TRUE,  acah |-> <<"Content-Type">>]
ForeignError  == [connects |-> TRUE,  httpOk |-> FALSE, acah |-> <<>>]
PortStates    == {Refused, ZapDaemon, ForeignPlain, ForeignCors, ForeignError}

\* A process that is not the engine holds the port.
IsForeign(p) == p.connects /\ "ZAP-Header" \notin Range(p.acah)

\* the try/except of is_running: does urlopen raise URLError?
UrlopenRaisesURLError(p) == ~p.connects \/ ~p.httpOk

\* is_running(): "false", "true", or "raise" for
\* ZAPError('Another process is listening on ...')
is_running(p) ==
    IF UrlopenRaisesURLError(p) THEN "false"
    ELSE IF "ZAP-Header" \in Range(p.acah) THEN "true"
    ELSE "raise"

ProbeEvent(r) ==
    CASE r = "true"  -> "probe_true"
      [] r = "false" -> "probe_false"
      [] r = "raise" -> "probe_raise"

\* StartCheck without the return of line 57: a running daemon is started again.
StartCheck_noReturn ==
    /\ op = "start" /\ pc = "start_check"
    /\ LET r == is_running(port) IN
        /\ nProbes' = nProbes + 1
        /\ lastProbe' = r
        /\ probedPort' = port
        /\ lastEvent' = ProbeEvent(r)
        /\ CASE r = "true"  -> pc' = "start_spawn" /\ outcome' = outcome
             [] r = "raise" -> pc' = "done" /\ outcome' = "PortConflict"
             [] r = "false" -> pc' = "start_spawn" /\ outcome' = outcome
    /\ UNCHANGED <<op, port, now, timeout_time, spawns, shutdownCalls, nSleeps,
                   reading, scanVars, selVars, restVars>>

\* start(), line 55: if self.is_running(): warn and return
StartCheck ==
    /\ op = "start" /\ pc = "start_check"
    /\ LET r == is_running(port) IN
        /\ nProbes' = nProbes + 1
        /\ lastProbe' = r
        /\ probedPort' = port
        /\ lastEvent' = ProbeEvent(r)
        /\ CASE r = "true"  -> pc' = "done" /\ outcome' = "returned"
             [] r = "raise" -> pc' = "done" /\ outcome' = "PortConflict"
             [] r = "false" -> pc' = "start_spawn" /\ outcome' = outcome
    /\ UNCHANGED <<op, port, now, timeout_time, spawns, shutdownCalls, nSleeps,
                   reading,
                   scanVars, selVars, restVars>>

\* start(), lines 59-78: build the command and subprocess.Popen it
StartSpawn ==
    /\ op = "start" /\ pc = "start_spawn"
    /\ spawns' = spawns + 1
    /\ lastEvent' = "spawn"
    /\ pc' = "start_deadline"
    /\ UNCHANGED <<op, outcome, port, now, timeout_time, shutdownCalls, nProbes,
                   nSleeps, lastProbe, probedPort, reading,
                   scanVars, selVars, restVars>>

\* start(), line 80: timeout_time = time.time() + self.timeout
StartDeadline ==
    /\ op = "start" /\ pc = "start_deadline"
    /\ timeout_time' = now + timeout
    /\ lastEvent' = "deadline_set"
    /\ pc' = "start_wait"
    /\ UNCHANGED <<op, outcome, port, now, spawns, shutdownCalls, nProbes,
                   nSleeps, lastProbe, probedPort, reading,
                   scanVars, selVars, restVars>>

\* StartWaitProbe with the condition of shutdown's loop, "while self.is_running()".
StartWaitProbe_inverted ==
    /\ op = "start" /\ pc = "start_wait"
    /\ LET r == is_running(port) IN
        /\ nProbes' = nProbes + 1
        /\ lastProbe' = r
        /\ probedPort' = port
        /\ lastEvent' = ProbeEvent(r)
        /\ CASE r = "false" -> pc' = "done" /\ outcome' = "returned"
             [] r = "raise" -> pc' = "done" /\ outcome' = "PortConflict"
             [] r = "true"  -> pc' = "start_timecheck" /\ outcome' = outcome
    /\ UNCHANGED <<op, port, now, timeout_time, spawns, shutdownCalls, nSleeps,
                   reading, scanVars, selVars, restVars>>

\* StartWaitProbe looking at the deadline before it looks at the probe's answer.
StartWaitProbe_deadlineFirst ==
    /\ op = "start" /\ pc = "start_wait"
    /\ LET r == is_running(port) IN
        /\ nProbes' = nProbes + 1
        /\ lastProbe' = r
        /\ probedPort' = port
        /\ lastEvent' = ProbeEvent(r)
        /\ IF now > timeout_time /\ r # "raise"
           THEN pc' = "done" /\ outcome' = "StartTimeout"
           ELSE CASE r = "true"  -> pc' = "done" /\ outcome' = "returned"
                  [] r = "raise" -> pc' = "done" /\ outcome' = "PortConflict"
                  [] r = "false" -> pc' = "start_timecheck" /\ outcome' = outcome
    /\ UNCHANGED <<op, port, now, timeout_time, spawns, shutdownCalls, nSleeps,
                   reading, scanVars, selVars, restVars>>

\* start(), line 81: while not self.is_running(); line 86 when it is running
StartWaitProbe ==
    /\ op = "start" /\ pc = "start_wait"
    /\ LET r == is_running(port) IN
        /\ nProbes' = nProbes + 1
        /\ lastProbe' = r
        /\ probedPort' = port
        /\ lastEvent' = ProbeEvent(r)
        /\ CASE r = "true"  -> pc' = "done" /\ outcome' = "returned"
             [] r = "raise" -> pc' = "done" /\ outcome' = "PortConflict"
             [] r = "false" -> pc' = "start_timecheck" /\ outcome' = outcome
    /\ UNCHANGED <<op, port, now, timeout_time, spawns, shutdownCalls, nSleeps,
                   reading,
                   scanVars, selVars, restVars>>

\* StartTimeCheck with the comparison turned round, "time.time() < timeout_time".
StartTimeCheck_reversed ==
    /\ op = "start" /\ pc = "start_timecheck"
    /\ reading' = now
    /\ IF now < timeout_time
       THEN pc' = "done" /\ outcome' = "StartTimeout" /\ lastEvent' = "deadline_passed"
       ELSE pc' = "start_sleep" /\ outcome' = outcome /\ lastEvent' = "deadline_ok"
    /\ UNCHANGED <<op, port, now, timeout_time, spawns, shutdownCalls, nProbes,
                   nSleeps, lastProbe, probedPort, scanVars, selVars, restVars>>

\* start(), lines 82-83: if time.time() > timeout_time:
\*     raise ZAPError('Timed out waiting for ZAP to start.')
StartTimeCheck ==
    /\ op = "start" /\ pc = "start_timecheck"
    /\ reading' = now
    /\ IF now > timeout_time
       THEN pc' = "done" /\ outcome' = "StartTimeout" /\ lastEvent' = "deadline_passed"
       ELSE pc' = "start_sleep" /\ outcome' = outcome /\ lastEvent' = "deadline_ok"
    /\ UNCHANGED <<op, port, now, timeout_time, spawns, shutdownCalls, nProbes,
                   nSleeps, lastProbe, probedPort,
                   scanVars, selVars, restVars>>

\* start(), line 84: time.sleep(2)
StartSleep ==
    /\ op = "start" /\ pc = "start_sleep"
    /\ now' = now + SleepSecs
    /\ nSleeps' = nSleeps + 1
    /\ lastEvent' = "sleep"
    /\ pc' = "start_wait"
    /\ UNCHANGED <<op, outcome, port, timeout_time, spawns, shutdownCalls, nProbes,
                   lastProbe, probedPort, reading,
                   scanVars, selVars, restVars>>

\* shutdown(), line 90: if not self.is_running(): warn and return
ShutdownCheck ==
    /\ op = "shutdown" /\ pc = "shutdown_check"
    /\ LET r == is_running(port) IN
        /\ nProbes' = nProbes + 1
        /\ lastProbe' = r
        /\ probedPort' = port
        /\ lastEvent' = ProbeEvent(r)
        /\ CASE r = "false" -> pc' = "done" /\ outcome' = "returned"
             [] r = "raise" -> pc' = "done" /\ outcome' = "PortConflict"
             [] r = "true"  -> pc' = "shutdown_call" /\ outcome' = outcome
    /\ UNCHANGED <<op, port, now, timeout_time, spawns, shutdownCalls, nSleeps,
                   reading,
                   scanVars, selVars, restVars>>

\* shutdown(), line 95: self.zap.core.shutdown(apikey=self.api_key)
ShutdownCall ==
    /\ op = "shutdown" /\ pc = "shutdown_call"
    /\ shutdownCalls' = shutdownCalls + 1
    /\ lastEvent' = "shutdown_call"
    /\ pc' = "shutdown_deadline"
    /\ UNCHANGED <<op, outcome, port, now, timeout_time, spawns, nProbes, nSleeps,
                   lastProbe, probedPort, reading,
                   scanVars, selVars, restVars>>

\* shutdown(), line 97: timeout_time = time.time() + self.timeout
ShutdownDeadline ==
    /\ op = "shutdown" /\ pc = "shutdown_deadline"
    /\ timeout_time' = now + timeout
    /\ lastEvent' = "deadline_set"
    /\ pc' = "shutdown_wait"
    /\ UNCHANGED <<op, outcome, port, now, spawns, shutdownCalls, nProbes,
                   nSleeps, lastProbe, probedPort, reading,
                   scanVars, selVars, restVars>>

\* ShutdownWaitProbe with the condition of start's loop, "while not self.is_running()".
ShutdownWaitProbe_inverted ==
    /\ op = "shutdown" /\ pc = "shutdown_wait"
    /\ LET r == is_running(port) IN
        /\ nProbes' = nProbes + 1
        /\ lastProbe' = r
        /\ probedPort' = port
        /\ lastEvent' = ProbeEvent(r)
        /\ CASE r = "true"  -> pc' = "done" /\ outcome' = "returned"
             [] r = "raise" -> pc' = "done" /\ outcome' = "PortConflict"
             [] r = "false" -> pc' = "shutdown_timecheck" /\ outcome' = outcome
    /\ UNCHANGED <<op, port, now, timeout_time, spawns, shutdownCalls, nSleeps,
                   reading, scanVars, selVars, restVars>>

\* shutdown(), line 98: while self.is_running(); line 103 when it is not
ShutdownWaitProbe ==
    /\ op = "shutdown" /\ pc = "shutdown_wait"
    /\ LET r == is_running(port) IN
        /\ nProbes' = nProbes + 1
        /\ lastProbe' = r
        /\ probedPort' = port
        /\ lastEvent' = ProbeEvent(r)
        /\ CASE r = "false" -> pc' = "done" /\ outcome' = "returned"
             [] r = "raise" -> pc' = "done" /\ outcome' = "PortConflict"
             [] r = "true"  -> pc' = "shutdown_timecheck" /\ outcome' = outcome
    /\ UNCHANGED <<op, port, now, timeout_time, spawns, shutdownCalls, nSleeps,
                   reading,
                   scanVars, selVars, restVars>>

\* shutdown(), lines 99-100: if time.time() > timeout_time:
\*     raise ZAPError('Timed out waiting for ZAP to shutdown.')
ShutdownTimeCheck ==
    /\ op = "shutdown" /\ pc = "shutdown_timecheck"
    /\ reading' = now
    /\ IF now > timeout_time
       THEN pc' = "done" /\ outcome' = "ShutdownTimeout" /\ lastEvent' = "deadline_passed"
       ELSE pc' = "shutdown_sleep" /\ outcome' = outcome /\ lastEvent' = "deadline_ok"
    /\ UNCHANGED <<op, port, now, timeout_time, spawns, shutdownCalls, nProbes,
                   nSleeps, lastProbe, probedPort,
                   scanVars, selVars, restVars>>

\* shutdown(), line 101: time.sleep(2)
ShutdownSleep ==
    /\ op = "shutdown" /\ pc = "shutdown_sleep"
    /\ now' = now + SleepSecs
    /\ nSleeps' = nSleeps + 1
    /\ lastEvent' = "sleep"
    /\ pc' = "shutdown_wait"
    /\ UNCHANGED <<op, outcome, port, timeout_time, spawns, shutdownCalls, nProbes,
                   lastProbe, probedPort, reading,
                   scanVars, selVars, restVars>>

\* The caller calls start() or shutdown().
CallLifecycle ==
    /\ pc = "idle"
    /\ \E m \in {"start", "shutdown"} :
        /\ op' = m
        /\ pc' = IF m = "start" THEN "start_check" ELSE "shutdown_check"
    /\ UNCHANGED <<outcome, lifeVars, scanVars, selVars, restVars>>

\* The daemon comes up or goes down, a stranger takes or leaves the port.
PortChange ==
    /\ pc # "done"
    /\ \E p \in PortStates \ {port} : port' = p
    /\ UNCHANGED <<op, pc, outcome, now, timeout_time, spawns, shutdownCalls,
                   nProbes, nSleeps, lastProbe, lastEvent, probedPort, reading,
                   scanVars, selVars, restVars>>

\* A second passes while the method is in a call (urlopen, Popen, ...).
Tick ==
    /\ pc \notin {"idle", "done"}
    /\ now - SleepSecs * nSleeps < MaxDrift
    /\ now' = now + 1
    /\ UNCHANGED <<op, pc, outcome, port, timeout_time, spawns, shutdownCalls,
                   nProbes, nSleeps, lastProbe, lastEvent, probedPort, reading,
                   scanVars, selVars, restVars>>

\* The steps of start() and shutdown() themselves.
LifecycleStep ==
    \/ StartCheck \/ StartSpawn \/ StartDeadline
    \/ StartWaitProbe \/ StartTimeCheck \/ StartSleep
    \/ ShutdownCheck \/ ShutdownCall \/ ShutdownDeadline
    \/ ShutdownWaitProbe \/ ShutdownTimeCheck \/ ShutdownSleep

InitCommon ==
    /\ op = "none" /\ pc = "idle" /\ outcome = "none"
    /\ now = 0 /\ timeout_time = 0
    /\ spawns = 0 /\ shutdownCalls = 0 /\ nProbes = 0 /\ nSleeps = 0
    /\ lastProbe = "none" /\ lastEvent = "none"
    /\ probedPort = Refused /\ reading = 0
    /\ scan_id = "" /\ tested = -1 /\ logged = -1 /\ iterProbes = 0
    /\ everProbed = FALSE /\ everLogged = FALSE /\ everSlept = FALSE
    /\ scanners = <<>> /\ idx = 0 /\ scanner_ids = <<>> /\ calls = <<>> /\ oob = 0
    /\ group_arg = <<>> /\ errorGroups = {}
    /\ alert_level = "High" /\ result = <<>>
    /\ exclude_regex = <<>> /\ exclCalls = <<>>
    /\ file_path = "" /\ statKind = "unseen" /\ sessionCalls = <<>>

\* No findings and an empty file system: the state of the collaborators the
\* lifecycle, scan and selection methods never look at.
InitRestQuiet ==
    /\ findings = <<>>
    /\ fs = <<>>

InitLifecycle ==
    /\ InitCommon
    /\ InitRestQuiet
    /\ port \in PortStates
    /\ spiderStatus = <<"0">> /\ ascanStatus = <<"0">>
    /\ enabled = {}

NextLifecycle ==
    \/ CallLifecycle
    \/ StartCheck \/ StartSpawn \/ StartDeadline
    \/ StartWaitProbe \/ StartTimeCheck \/ StartSleep
    \/ ShutdownCheck \/ ShutdownCall \/ ShutdownDeadline
    \/ ShutdownWaitProbe \/ ShutdownTimeCheck \/ ShutdownSleep
    \/ PortChange
    \/ Tick

SpecLifecycle == InitLifecycle /\ [][NextLifecycle]_vars

\* The interpreter keeps running the method it is in: a step of start() or
\* shutdown() that can be taken is taken.  Nothing is assumed of the engine
\* or of the clock beyond the sleeps.
LiveLifecycle == SpecLifecycle /\ WF_vars(LifecycleStep)

(***************************************************************************)
(* Scan jobs                                                               *)
(***************************************************************************)
\* The value of a decimal digit.
DigitVal(c) ==
    CASE c = "0" -> 0 [] c = "1" -> 1 [] c = "2" -> 2 [] c = "3" -> 3
      [] c = "4" -> 4 [] c = "5" -> 5 [] c = "6" -> 6 [] c = "7" -> 7
      [] c = "8" -> 8 [] c = "9" -> 9

\* int(s) of a string of decimal digits, the string given as its characters.
RECURSIVE int(_)
int(s) ==
    IF Len(s) = 0 THEN 0
    ELSE 10 * int(SubSeq(s, 1, Len(s) - 1)) + DigitVal(s[Len(s)])

\* What status() may answer: a percentage in 0..100 as text (JobStatus).
StatusAnswers == {<<"0">>, <<"5", "0">>, <<"9", "9">>, <<"1", "0", "0">>}

\* What ascan.scan() may answer: a job identifier as text, '' when rejected.
ScanIds == {"", "0", "7"}

\* bool(v) of a string.  As if the identifier were a number: '0' is false too.
Truthy_asNumber(v) == v \notin {"", "0"}

\* bool(v) of a string: only the empty string is false.
Truthy(v) == v # ""

\* The loop condition with an early exit at 99%.
StillRunning_early(sample) == sample < 99

\* the loop condition of lines 129 and 144: int(status) < 100
StillRunning(sample) == sample < 100

\* run_spider(), line 127: self.zap.spider.scan(target_url, ...)
SpiderScan ==
    /\ op = "run_spider" /\ pc = "spider_scan"
    /\ pc' = "spider_cond"
    /\ UNCHANGED <<op, outcome, lifeVars, scanVars, selVars, restVars>>

\* The loop condition giving up on its second failed test.
SpiderCond_bounded ==
    /\ op = "run_spider" /\ pc = "spider_cond"
    /\ LET sample == int(spiderStatus) IN
        /\ tested' = sample
        /\ IF StillRunning(sample)
           THEN IF everSlept
                THEN pc' = "done" /\ outcome' = "Timeout"
                ELSE pc' = "spider_log" /\ outcome' = outcome
           ELSE pc' = "done" /\ outcome' = "returned"
    /\ iterProbes' = 1
    /\ everProbed' = TRUE
    /\ UNCHANGED <<op, lifeVars, spiderStatus, ascanStatus, scan_id, logged,
                   everLogged, everSlept, selVars, restVars>>

\* run_spider(), line 129: while int(self.zap.spider.status()) < 100;
\* line 133 when it is not
SpiderCond ==
    /\ op = "run_spider" /\ pc = "spider_cond"
    /\ LET sample == int(spiderStatus) IN
        /\ tested' = sample
        /\ IF StillRunning(sample)
           THEN pc' = "spider_log" /\ outcome' = outcome
           ELSE pc' = "done" /\ outcome' = "returned"
    /\ iterProbes' = 1
    /\ everProbed' = TRUE
    /\ UNCHANGED <<op, lifeVars, spiderStatus, ascanStatus, scan_id, logged,
                   everLogged, everSlept, selVars, restVars>>

\* run_spider(), line 130: debug('Spider progress %: ...status())
SpiderLog ==
    /\ op = "run_spider" /\ pc = "spider_log"
    /\ logged' = int(spiderStatus)
    /\ iterProbes' = iterProbes + 1
    /\ everLogged' = TRUE
    /\ pc' = "spider_sleep"
    /\ UNCHANGED <<op, outcome, lifeVars, spiderStatus, ascanStatus, scan_id,
                   tested, everProbed, everSlept, selVars, restVars>>

\* run_spider(), line 131: time.sleep(status_check_sleep)
SpiderSleep ==
    /\ op = "run_spider" /\ pc = "spider_sleep"
    /\ everSlept' = TRUE
    /\ pc' = "spider_cond"
    /\ UNCHANGED <<op, outcome, lifeVars, spiderStatus, ascanStatus, scan_id,
                   tested, logged, iterProbes, everProbed, everLogged, selVars, restVars>>

\* run_active_scan(), line 139: scan_id = self.zap.ascan.scan(target_url, ...)
AscanScan ==
    /\ op = "run_active_scan" /\ pc = "ascan_scan"
    /\ \E id \in ScanIds : scan_id' = id
    /\ pc' = "ascan_check"
    /\ UNCHANGED <<op, outcome, lifeVars, spiderStatus, ascanStatus, tested,
                   logged, iterProbes, everProbed, everLogged, everSlept, selVars, restVars>>

\* run_active_scan(), lines 141-142: if not scan_id:
\*     raise ZAPError('Error running active scan.')
AscanCheck ==
    /\ op = "run_active_scan" /\ pc = "ascan_check"
    /\ IF ~Truthy(scan_id)
       THEN pc' = "done" /\ outcome' = "ScanStartFailed"
       ELSE pc' = "ascan_cond" /\ outcome' = outcome
    /\ UNCHANGED <<op, lifeVars, scanVars, selVars, restVars>>

\* run_active_scan(), line 144: while int(self.zap.ascan.status()) < 100;
\* line 148 when it is not
AscanCond ==
    /\ op = "run_active_scan" /\ pc = "ascan_cond"
    /\ LET sample == int(ascanStatus) IN
        /\ tested' = sample
        /\ IF StillRunning(sample)
           THEN pc' = "ascan_log" /\ outcome' = outcome
           ELSE pc' = "done" /\ outcome' = "returned"
    /\ iterProbes' = 1
    /\ everProbed' = TRUE
    /\ UNCHANGED <<op, lifeVars, spiderStatus, ascanStatus, scan_id, logged,
                   everLogged, everSlept, selVars, restVars>>

\* run_active_scan(), line 145: debug('Scan progress %: ...status())
AscanLog ==
    /\ op = "run_active_scan" /\ pc = "ascan_log"
    /\ logged' = int(ascanStatus)
    /\ iterProbes' = iterProbes + 1
    /\ everLogged' = TRUE
    /\ pc' = "ascan_sleep"
    /\ UNCHANGED <<op, outcome, lifeVars, spiderStatus, ascanStatus, scan_id,
                   tested, everProbed, everSlept, selVars, restVars>>

\* run_active_scan(), line 146: time.sleep(status_check_sleep)
AscanSleep ==
    /\ op = "run_active_scan" /\ pc = "ascan_sleep"
    /\ everSlept' = TRUE
    /\ pc' = "ascan_cond"
    /\ UNCHANGED <<op, outcome, lifeVars, spiderStatus, ascanStatus, scan_id,
                   tested, logged, iterProbes, everProbed, everLogged, selVars, restVars>>

\* The caller calls run_spider() or run_active_scan().
CallScan ==
    /\ pc = "idle"
    /\ \E m \in {"run_spider", "run_active_scan"} :
        /\ op' = m
        /\ pc' = IF m = "run_spider" THEN "spider_scan" ELSE "ascan_scan"
    /\ UNCHANGED <<outcome, lifeVars, scanVars, selVars, restVars>>

\* The engine's spider job moves: its status is the engine's to report.
SpiderStatusChange ==
    /\ pc # "done"
    /\ \E a \in StatusAnswers \ {spiderStatus} : spiderStatus' = a
    /\ UNCHANGED <<op, pc, outcome, lifeVars, ascanStatus, scan_id, tested, logged,
                   iterProbes, everProbed, everLogged, everSlept, selVars, restVars>>

\* The engine's active scan job moves.
AscanStatusChange ==
    /\ pc # "done"
    /\ \E a \in StatusAnswers \ {ascanStatus} : ascanStatus' = a
    /\ UNCHANGED <<op, pc, outcome, lifeVars, spiderStatus, scan_id, tested, logged,
                   iterProbes, everProbed, everLogged, everSlept, selVars, restVars>>

\* The steps of run_spider() and run_active_scan() themselves.
ScanStep ==
    \/ SpiderScan \/ SpiderCond \/ SpiderLog \/ SpiderSleep
    \/ AscanScan \/ AscanCheck \/ AscanCond \/ AscanLog \/ AscanSleep

InitScan ==
    /\ InitCommon
    /\ InitRestQuiet
    /\ port = ZapDaemon
    /\ spiderStatus \in StatusAnswers /\ ascanStatus \in StatusAnswers
    /\ enabled = {}

NextScan ==
    \/ CallScan
    \/ SpiderScan \/ SpiderCond \/ SpiderLog \/ SpiderSleep
    \/ AscanScan \/ AscanCheck \/ AscanCond \/ AscanLog \/ AscanSleep
    \/ SpiderStatusChange
    \/ AscanStatusChange

SpecScan == InitScan /\ [][NextScan]_vars

\* The interpreter keeps running the method it is in.  Nothing is assumed of
\* the engine: its status need never change.
LiveScan == SpecScan /\ WF_vars(ScanStep)

(***************************************************************************)
(* Scanner selection                                                       *)
(*                                                                         *)
(* A scanner token, a group name or an id is a Python string, given here   *)
(* as the sequence of its characters, so that isdigit, ','.join and the    *)
(* engine's reading of the joined ids are computed.                        *)
(***************************************************************************)
tok_all            == <<"a", "l", "l">>
tok_sqli           == <<"s", "q", "l", "i">>
tok_xss            == <<"x", "s", "s">>
tok_xss_reflected  == <<"x", "s", "s", "_", "r", "e", "f", "l", "e", "c", "t", "e", "d">>
tok_xss_persistent == <<"x", "s", "s", "_", "p", "e", "r", "s", "i", "s", "t", "e", "n", "t">>
id40012 == <<"4", "0", "0", "1", "2">>
id40014 == <<"4", "0", "0", "1", "4">>
id40016 == <<"4", "0", "0", "1", "6">>
id40017 == <<"4", "0", "0", "1", "7">>
id40018 == <<"4", "0", "0", "1", "8">>
id40099 == <<"4", "0", "0", "9", "9">>
tok_mixed == <<"4", "0", "x">>

\* ZAPHelper.scanner_group_map
scanner_group_map ==
    (tok_sqli :> <<id40018>>)
    @@ (tok_xss :> <<id40012, id40014, id40016, id40017>>)
    @@ (tok_xss_reflected :> <<id40012>>)
    @@ (tok_xss_persistent :> <<id40014, id40016, id40017>>)

\* ZAPHelper.scanner_groups: ['all'] + scanner_group_map.keys()
scanner_groups == {tok_all} \cup DOMAIN scanner_group_map

\* The scanners the engine has registered.
Registered == {id40012, id40014, id40016, id40017, id40018, id40099}

\* The tokens a caller may put in a selection.
Tokens == {tok_all, tok_sqli, tok_xss, tok_xss_reflected, tok_xss_persistent,
           id40018, id40099, tok_mixed}

RECURSIVE SeqsUpTo(_, _)
SeqsUpTo(S, n) ==
    IF n = 0 THEN {<<>>}
    ELSE LET shorter == SeqsUpTo(S, n - 1)
         IN  shorter \cup {Append(q, x) : q \in shorter, x \in S}

Selections == SeqsUpTo(Tokens, MaxSel)

\* str.isdigit(): not empty and every character a decimal digit
isdigit(t) ==
    /\ Len(t) > 0
    /\ \A i \in 1..Len(t) :
          t[i] \in {"0", "1", "2", "3", "4", "5", "6", "7", "8", "9"}

\* ''.join(l): the separator forgotten.
RECURSIVE join_noSeparator(_)
join_noSeparator(l) ==
    IF Len(l) = 0 THEN <<>> ELSE l[1] \o join_noSeparator(Tail(l))

\* ','.join(l)
RECURSIVE join(_)
join(l) ==
    IF Len(l) = 0 THEN <<>>
    ELSE IF Len(l) = 1 THEN l[1]
    ELSE l[1] \o <<",">> \o join(Tail(l))

\* The engine's reading of a comma-delimited id list: text.split(',')
RECURSIVE split(_)
split(text) ==
    IF \A i \in 1..Len(text) : text[i] # "," THEN <<text>>
    ELSE LET k == CHOOSE i \in 1..Len(text) :
                      text[i] = "," /\ \A j \in 1..(i - 1) : text[j] # ","
         IN  <<SubSeq(text, 1, k - 1)>> \o split(SubSeq(text, k + 1, Len(text)))

\* The remote ascan calls.
DisableAllCall     == [api |-> "disable_all_scanners", ids |-> <<>>]
EnableAllCall      == [api |-> "enable_all_scanners",  ids |-> <<>>]
EnableIdsCall(l)   == [api |-> "enable_scanners",      ids |-> join(l)]

\* enable_scanners_by_ids(scanner_ids): the call it makes
enable_scanners_by_ids(l) == EnableIdsCall(l)

\* What a remote call does to the engine's enabled scanners.
Apply(call, en) ==
    CASE call.api = "disable_all_scanners" -> {}
      [] call.api = "enable_all_scanners"  -> Registered
      [] call.api = "enable_scanners"      -> en \cup Range(split(call.ids))

\* enable_scanners_by_group with a forgiving lookup, scanner_group_map.get(group, []):
\* an unknown name enables nothing and raises nothing.
enable_scanners_by_group_forgiving(group) ==
    IF group = tok_all
    THEN [raises |-> FALSE, call |-> EnableAllCall, valid |-> {}]
    ELSE IF group \in DOMAIN scanner_group_map
    THEN [raises |-> FALSE,
          call |-> enable_scanners_by_ids(scanner_group_map[group]),
          valid |-> {}]
    ELSE [raises |-> FALSE, call |-> enable_scanners_by_ids(<<>>), valid |-> {}]

\* enable_scanners_by_group(group): the call it makes, or the raise of
\* ZAPError('Invalid group "..." provided. Valid groups are: ...')
enable_scanners_by_group(group) ==
    IF group = tok_all
    THEN [raises |-> FALSE, call |-> EnableAllCall, valid |-> {}]
    ELSE IF group \in DOMAIN scanner_group_map
    THEN [raises |-> FALSE,
          call |-> enable_scanners_by_ids(scanner_group_map[group]),
          valid |-> {}]
    ELSE [raises |-> TRUE, call |-> DisableAllCall, valid |-> scanner_groups]

\* enable_scanners(), lines 207-210: disable all, scanner_ids = []
EsDisableAll ==
    /\ op = "enable_scanners" /\ pc = "es_disable"
    /\ enabled' = Apply(DisableAllCall, enabled)
    /\ calls' = Append(calls, DisableAllCall)
    /\ scanner_ids' = <<>>
    /\ pc' = "es_loop"
    /\ UNCHANGED <<op, outcome, lifeVars, scanVars, restVars, scanners, idx, oob>>

\* EsToken enabling each id as it meets it rather than collecting it.
EsToken_immediateIds ==
    /\ op = "enable_scanners" /\ pc = "es_loop"
    /\ idx < Len(scanners)
    /\ LET scanner == scanners[idx + 1] IN
        /\ idx' = idx + 1
        /\ IF scanner \in scanner_groups
           THEN LET r == enable_scanners_by_group(scanner) IN
                /\ enabled' = Apply(r.call, enabled)
                /\ calls' = Append(calls, r.call)
                /\ UNCHANGED <<pc, outcome, scanner_ids>>
           ELSE IF isdigit(scanner)
           THEN /\ enabled' = Apply(enable_scanners_by_ids(<<scanner>>), enabled)
                /\ calls' = Append(calls, enable_scanners_by_ids(<<scanner>>))
                /\ UNCHANGED <<pc, outcome, scanner_ids>>
           ELSE /\ pc' = "done" /\ outcome' = "InvalidScanner"
                /\ UNCHANGED <<enabled, calls, scanner_ids>>
    /\ UNCHANGED <<op, lifeVars, scanVars, restVars, scanners, oob>>

\* EsToken enabling the ids collected so far before it rejects a token.
EsToken_flushOnInvalid ==
    /\ op = "enable_scanners" /\ pc = "es_loop"
    /\ idx < Len(scanners)
    /\ LET scanner == scanners[idx + 1] IN
        /\ idx' = idx + 1
        /\ IF scanner \in scanner_groups
           THEN LET r == enable_scanners_by_group(scanner) IN
                /\ enabled' = Apply(r.call, enabled)
                /\ calls' = Append(calls, r.call)
                /\ UNCHANGED <<pc, outcome, scanner_ids>>
           ELSE IF isdigit(scanner)
           THEN /\ scanner_ids' = Append(scanner_ids, scanner)
                /\ UNCHANGED <<pc, outcome, enabled, calls>>
           ELSE /\ pc' = "done" /\ outcome' = "InvalidScanner"
                /\ enabled' = Apply(enable_scanners_by_ids(scanner_ids), enabled)
                /\ calls' = Append(calls, enable_scanners_by_ids(scanner_ids))
                /\ UNCHANGED scanner_ids
    /\ UNCHANGED <<op, lifeVars, scanVars, restVars, scanners, oob>>

\* enable_scanners(), lines 211-217: one turn of the for loop
EsToken ==
    /\ op = "enable_scanners" /\ pc = "es_loop"
    /\ idx < Len(scanners)
    /\ LET scanner == scanners[idx + 1] IN
        /\ idx' = idx + 1
        /\ IF scanner \in scanner_groups
           THEN LET r == enable_scanners_by_group(scanner) IN
                IF r.raises
                THEN /\ pc' = "done" /\ outcome' = "UnknownGroup"
                     /\ UNCHANGED <<enabled, calls, scanner_ids>>
                ELSE /\ enabled' = Apply(r.call, enabled)
                     /\ calls' = Append(calls, r.call)
                     /\ UNCHANGED <<pc, outcome, scanner_ids>>
           ELSE IF isdigit(scanner)
           THEN /\ scanner_ids' = Append(scanner_ids, scanner)
                /\ UNCHANGED <<pc, outcome, enabled, calls>>
           ELSE \* ZAPError('Invalid scanner "..." provided. Must be ...')
                /\ pc' = "done" /\ outcome' = "InvalidScanner"
                /\ UNCHANGED <<enabled, calls, scanner_ids>>
    /\ UNCHANGED <<op, lifeVars, scanVars, restVars, scanners, oob>>

\* EsBatch without the test of line 219: the batch call is made even when empty.
EsBatch_unguarded ==
    /\ op = "enable_scanners" /\ pc = "es_loop"
    /\ idx = Len(scanners)
    /\ enabled' = Apply(enable_scanners_by_ids(scanner_ids), enabled)
    /\ calls' = Append(calls, enable_scanners_by_ids(scanner_ids))
    /\ pc' = "done" /\ outcome' = "returned"
    /\ UNCHANGED <<op, lifeVars, scanVars, restVars, scanners, idx, scanner_ids, oob>>

\* enable_scanners(), lines 219-220: if scanner_ids: enable them; return
EsBatch ==
    /\ op = "enable_scanners" /\ pc = "es_loop"
    /\ idx = Len(scanners)
    /\ IF Len(scanner_ids) > 0
       THEN /\ enabled' = Apply(enable_scanners_by_ids(scanner_ids), enabled)
            /\ calls' = Append(calls, enable_scanners_by_ids(scanner_ids))
       ELSE UNCHANGED <<enabled, calls>>
    /\ pc' = "done" /\ outcome' = "returned"
    /\ UNCHANGED <<op, lifeVars, scanVars, restVars, scanners, idx, scanner_ids, oob>>

\* The caller calls enable_scanners(selection).
CallEnableScanners ==
    /\ pc = "idle"
    /\ \E sel \in Selections : scanners' = sel
    /\ op' = "enable_scanners"
    /\ pc' = "es_disable"
    /\ UNCHANGED <<outcome, lifeVars, scanVars, restVars, enabled, idx, scanner_ids, calls, oob>>

\* Names a caller may hand to enable_scanners_by_group: the tokens above, a
\* name that is no group, a group name in another case, the empty string.
tok_not_a_group == <<"n", "o", "t", "-", "a", "-", "g", "r", "o", "u", "p">>
tok_SQLI        == <<"S", "Q", "L", "I">>
GroupArgs == Tokens \cup {tok_not_a_group, tok_SQLI, <<>>}

\* The caller calls enable_scanners_by_group(group).
CallEnableByGroup ==
    /\ pc = "idle"
    /\ \E g \in GroupArgs : group_arg' = g
    /\ op' = "enable_scanners_by_group"
    /\ pc' = "ebg"
    /\ UNCHANGED <<outcome, lifeVars, scanVars, selVars, errorGroups, alertVars,
                   facadeVars>>

\* enable_scanners_by_group(), lines 187-201
EnableByGroup ==
    /\ op = "enable_scanners_by_group" /\ pc = "ebg"
    /\ LET r == enable_scanners_by_group(group_arg) IN
        IF r.raises
        THEN /\ outcome' = "UnknownGroup"
             /\ errorGroups' = r.valid
             /\ UNCHANGED <<enabled, calls>>
        ELSE /\ outcome' = "returned"
             /\ enabled' = Apply(r.call, enabled)
             /\ calls' = Append(calls, r.call)
             /\ UNCHANGED errorGroups
    /\ pc' = "done"
    /\ UNCHANGED <<op, lifeVars, scanVars, scanners, idx, scanner_ids, oob,
                   group_arg, alertVars, facadeVars>>

\* Another client of the engine switches one scanner on or off during the
\* call.  (A change before the disable-all is another initial enabled set.)
OtherClientToggles ==
    /\ pc = "es_loop"
    /\ oob < MaxOob
    /\ \E id \in Registered :
          enabled' = IF id \in enabled THEN enabled \ {id} ELSE enabled \cup {id}
    /\ oob' = oob + 1
    /\ UNCHANGED <<op, pc, outcome, lifeVars, scanVars, restVars, scanners, idx,
                   scanner_ids, calls>>

\* The steps of enable_scanners() itself.
SelectionStep == EsDisableAll \/ EsToken \/ EsBatch

InitSelection ==
    /\ InitCommon
    /\ InitRestQuiet
    /\ port = ZapDaemon
    /\ spiderStatus = <<"0">> /\ ascanStatus = <<"0">>
    /\ enabled \in SUBSET Registered

NextSelection ==
    \/ CallEnableScanners
    \/ CallEnableByGroup
    \/ EnableByGroup
    \/ EsDisableAll
    \/ EsToken
    \/ EsBatch
    \/ OtherClientToggles

SpecSelection == InitSelection /\ [][NextSelection]_vars

(***************************************************************************)
(* Alerts                                                                  *)
(***************************************************************************)
\* ZAPHelper.alert_levels
alert_levels ==
    ("Informational" :> 1) @@ ("Low" :> 2) @@ ("Medium" :> 3) @@ ("High" :> 4)

\* The risk labels the engine may put on a finding: the four above, and
\* labels alert_levels does not know.
RiskLabels == {"Informational", "Low", "Medium", "High", "Critical", "high"}

\* The thresholds a caller may ask for.
AlertLevelArgs == {"Informational", "Low", "Medium", "High", "Critical"}

\* A dictionary lookup with a default, alert_levels.get(label, 0).
LevelOf_default(label) ==
    IF label \in DOMAIN alert_levels
    THEN [raises |-> FALSE, value |-> alert_levels[label]]
    ELSE [raises |-> FALSE, value |-> 0]

\* self.alert_levels[label]: the value, or the raise of KeyError
LevelOf(label) ==
    IF label \in DOMAIN alert_levels
    THEN [raises |-> FALSE, value |-> alert_levels[label]]
    ELSE [raises |-> TRUE, value |-> 0]

\* The filter with a strict comparison.
Keeps_strict(value, alert_level_value) == value > alert_level_value

\* the filter of line 155: alert_levels[a['risk']] >= alert_level_value
Keeps(value, alert_level_value) == value >= alert_level_value

\* The generator of line 155: the findings it yields, in order.
RECURSIVE Filtered(_, _)
Filtered(as, alert_level_value) ==
    IF Len(as) = 0 THEN <<>>
    ELSE LET rest == Filtered(Tail(as), alert_level_value)
         IN  IF Keeps(LevelOf(as[1].risk).value, alert_level_value)
             THEN <<as[1]>> \o rest
             ELSE rest

\* Where a finding of key k goes among findings already in order: with
\* reverse=True, after every finding whose key is not smaller (stable).
RECURSIVE InsertDescending(_, _)
InsertDescending(sortedSoFar, a) ==
    IF Len(sortedSoFar) = 0 THEN <<a>>
    ELSE IF LevelOf(sortedSoFar[1].risk).value >= LevelOf(a.risk).value
    THEN <<sortedSoFar[1]>> \o InsertDescending(Tail(sortedSoFar), a)
    ELSE <<a>> \o sortedSoFar

\* The same with reverse=False: after every finding whose key is not larger.
RECURSIVE InsertAscending(_, _)
InsertAscending(sortedSoFar, a) ==
    IF Len(sortedSoFar) = 0 THEN <<a>>
    ELSE IF LevelOf(sortedSoFar[1].risk).value <= LevelOf(a.risk).value
    THEN <<sortedSoFar[1]>> \o InsertAscending(Tail(sortedSoFar), a)
    ELSE <<a>> \o sortedSoFar

\* sorted(..., key=..., reverse=False): the flag forgotten.
RECURSIVE sorted_forward(_)
sorted_forward(as) ==
    IF Len(as) = 0 THEN <<>>
    ELSE InsertAscending(sorted_forward(SubSeq(as, 1, Len(as) - 1)), as[Len(as)])

\* sorted(..., key=lambda k: alert_levels[k['risk']], reverse=True)
RECURSIVE sorted_reverse(_)
sorted_reverse(as) ==
    IF Len(as) = 0 THEN <<>>
    ELSE InsertDescending(sorted_reverse(SubSeq(as, 1, Len(as) - 1)), as[Len(as)])

\* alerts(alert_level) on the findings as: the list it returns, or the raise
\* of KeyError by a lookup of line 153 or line 155.
alerts(as, level) ==
    IF \/ LevelOf(level).raises
       \/ \E i \in 1..Len(as) : LevelOf(as[i].risk).raises
    THEN [raises |-> TRUE, value |-> <<>>]
    ELSE [raises |-> FALSE,
          value |-> sorted_reverse(Filtered(as, LevelOf(level).value))]

\* The findings with the risk labels ls: each is told from the others by
\* its place in the engine's answer.
FindingsOf(ls) == [i \in 1..Len(ls) |-> [risk |-> ls[i], alert |-> i]]

\* The caller calls alerts(alert_level).
CallAlerts ==
    /\ pc = "idle"
    /\ \E l \in AlertLevelArgs : alert_level' = l
    /\ op' = "alerts"
    /\ pc' = "alerts"
    /\ UNCHANGED <<outcome, lifeVars, scanVars, selVars, grpVars, findings, result,
                   facadeVars>>

\* alerts(), lines 152-158
Alerts ==
    /\ op = "alerts" /\ pc = "alerts"
    /\ LET r == alerts(findings, alert_level) IN
        /\ outcome' = IF r.raises THEN "KeyError" ELSE "returned"
        /\ result' = r.value
    /\ pc' = "done"
    /\ UNCHANGED <<op, lifeVars, scanVars, selVars, grpVars, findings, alert_level,
                   facadeVars>>

InitAlerts ==
    /\ InitCommon
    /\ port = ZapDaemon
    /\ spiderStatus = <<"0">> /\ ascanStatus = <<"0">>
    /\ enabled = {}
    /\ fs = <<>>
    /\ \E ls \in SeqsUpTo(RiskLabels, MaxAlerts) : findings = FindingsOf(ls)

NextAlerts ==
    \/ CallAlerts
    \/ Alerts

SpecAlerts == InitAlerts /\ [][NextAlerts]_vars

(***************************************************************************)
(* Exclusions and sessions                                                 *)
(***************************************************************************)
\* The characters of the patterns: a literal, the brackets of a character
\* set, and the repeat operator.
PatternChars == {"a", "[", "]", "*"}

Patterns == SeqsUpTo(PatternChars, MaxPatLen)

\* re.compile(p) read from character i on.  set: 0 outside a character set,
\* 1 right after its '[' (the next character is a member, ']' too), 2 inside
\* with a member read.  rep: a '*' may follow (there is something to repeat
\* and it is not a repeat itself).  TRUE when the pattern compiles; re.error
\* ("unterminated character set", "nothing to repeat", "multiple repeat")
\* otherwise.
RECURSIVE Compiles(_, _, _, _)
Compiles(p, i, set, rep) ==
    IF i > Len(p) THEN set = 0
    ELSE CASE set = 1 -> Compiles(p, i + 1, 2, FALSE)
           [] set = 2 -> IF p[i] = "]" THEN Compiles(p, i + 1, 0, TRUE)
                         ELSE Compiles(p, i + 1, 2, FALSE)
           [] set = 0 ->
                CASE p[i] = "[" -> Compiles(p, i + 1, 1, FALSE)
                  [] p[i] = "*" -> rep /\ Compiles(p, i + 1, 0, FALSE)
                  [] OTHER      -> Compiles(p, i + 1, 0, TRUE)

\* the try of lines 230-233: does re.compile(exclude_regex) raise re.error?
CompileRaises(p) == ~Compiles(p, 1, 0, FALSE)

ExcludeCall(api, p) == [api |-> api, regex |-> p]

\* ExcludeCompile with the validation left out.
ExcludeCompile_unvalidated ==
    /\ op = "exclude_from_all" /\ pc = "excl_compile"
    /\ pc' = "excl_proxy" /\ outcome' = outcome
    /\ UNCHANGED <<op, lifeVars, scanVars, selVars, restVars>>

\* exclude_from_all(), lines 230-235: re.compile, or
\* ZAPError('Invalid regex "..." provided')
ExcludeCompile ==
    /\ op = "exclude_from_all" /\ pc = "excl_compile"
    /\ IF CompileRaises(exclude_regex)
       THEN pc' = "done" /\ outcome' = "InvalidPattern"
       ELSE pc' = "excl_proxy" /\ outcome' = outcome
    /\ UNCHANGED <<op, lifeVars, scanVars, selVars, restVars>>

\* exclude_from_all(), line 237: self.zap.core.exclude_from_proxy(...)
ExcludeProxy ==
    /\ op = "exclude_from_all" /\ pc = "excl_proxy"
    /\ exclCalls' = Append(exclCalls, ExcludeCall("core.exclude_from_proxy", exclude_regex))
    /\ pc' = "excl_spider"
    /\ UNCHANGED <<op, outcome, lifeVars, scanVars, selVars, grpVars, alertVars,
                   exclude_regex, file_path, fs, statKind, sessionCalls>>

\* exclude_from_all(), line 238: self.zap.spider.exclude_from_scan(...)
ExcludeSpider ==
    /\ op = "exclude_from_all" /\ pc = "excl_spider"
    /\ exclCalls' = Append(exclCalls, ExcludeCall("spider.exclude_from_scan", exclude_regex))
    /\ pc' = "excl_ascan"
    /\ UNCHANGED <<op, outcome, lifeVars, scanVars, selVars, grpVars, alertVars,
                   exclude_regex, file_path, fs, statKind, sessionCalls>>

\* exclude_from_all(), line 239: self.zap.ascan.exclude_from_scan(...)
ExcludeAscan ==
    /\ op = "exclude_from_all" /\ pc = "excl_ascan"
    /\ exclCalls' = Append(exclCalls, ExcludeCall("ascan.exclude_from_scan", exclude_regex))
    /\ pc' = "done" /\ outcome' = "returned"
    /\ UNCHANGED <<op, lifeVars, scanVars, selVars, grpVars, alertVars,
                   exclude_regex, file_path, fs, statKind, sessionCalls>>

\* The caller calls exclude_from_all(exclude_regex).
CallExcludeFromAll ==
    /\ pc = "idle"
    /\ \E p \in Patterns : exclude_regex' = p
    /\ op' = "exclude_from_all"
    /\ pc' = "excl_compile"
    /\ UNCHANGED <<outcome, lifeVars, scanVars, selVars, grpVars, alertVars,
                   exclCalls, file_path, fs, statKind, sessionCalls>>

\* The paths a caller may hand to load_session, and what a path may hold.
Paths == {"/nonexistent/path", "/tmp/zap.session", "/tmp"}
PathKinds == {"none", "file", "dir"}

\* os.path.exists(path): a directory counts too.
isfile_exists(kind) == kind # "none"

\* os.path.isfile(path): a regular file is there
isfile(kind) == kind = "file"

\* load_session(), lines 253-255: the existence check, or
\* ZAPError('No file found at "...", cannot load session.')
LoadSessionCheck ==
    /\ op = "load_session" /\ pc = "ls_check"
    /\ statKind' = fs[file_path]
    /\ IF ~isfile(fs[file_path])
       THEN pc' = "done" /\ outcome' = "SessionNotFound"
       ELSE pc' = "ls_load" /\ outcome' = outcome
    /\ UNCHANGED <<op, lifeVars, scanVars, selVars, grpVars, alertVars,
                   exclude_regex, exclCalls, file_path, fs, sessionCalls>>

\* load_session(), line 256: self.zap.core.load_session(file_path, ...)
LoadSessionCall ==
    /\ op = "load_session" /\ pc = "ls_load"
    /\ sessionCalls' = Append(sessionCalls, [api |-> "core.load_session", path |-> file_path])
    /\ pc' = "done" /\ outcome' = "returned"
    /\ UNCHANGED <<op, lifeVars, scanVars, selVars, grpVars, alertVars,
                   exclude_regex, exclCalls, file_path, fs, statKind>>

\* The caller calls load_session(file_path).
CallLoadSession ==
    /\ pc = "idle"
    /\ \E p \in Paths : file_path' = p
    /\ op' = "load_session"
    /\ pc' = "ls_check"
    /\ UNCHANGED <<outcome, lifeVars, scanVars, selVars, grpVars, alertVars,
                   exclude_regex, exclCalls, fs, statKind, sessionCalls>>

\* Someone creates or removes a file or directory while load_session runs.
FsChange ==
    /\ op = "load_session" /\ pc # "done"
    /\ \E p \in Paths, k \in PathKinds :
          /\ fs[p] # k
          /\ fs' = [fs EXCEPT ![p] = k]
    /\ UNCHANGED <<op, pc, outcome, lifeVars, scanVars, selVars, grpVars, alertVars,
                   exclude_regex, exclCalls, file_path, statKind, sessionCalls>>

InitFacade ==
    /\ InitCommon
    /\ port = ZapDaemon
    /\ spiderStatus = <<"0">> /\ ascanStatus = <<"0">>
    /\ enabled = {}
    /\ findings = <<>>
    /\ fs \in [Paths -> PathKinds]

NextFacade ==
    \/ CallExcludeFromAll
    \/ ExcludeCompile
    \/ ExcludeProxy
    \/ ExcludeSpider
    \/ ExcludeAscan
    \/ CallLoadSession
    \/ LoadSessionCheck
    \/ LoadSessionCall
    \/ FsChange

SpecFacade == InitFacade /\ [][NextFacade]_vars

(***************************************************************************)
(* Claims about the daemon lifecycle                                       *)
(***************************************************************************)
HasMarker(p) == "ZAP-Header" \in Range(p.acah)

\* C3: when start() found the daemon not running (so it spawned it) and a
\* probe of the wait then returns true, start() returns normally, it has
\* spawned exactly one process, and that probe is the last thing it did: no
\* probe, deadline test or sleep follows it.  Conversely a start() that
\* returns after having probed more than once returns on a true probe.
C3_StartReturnsOnTrueProbe ==
    /\ (op = "start" /\ spawns > 0 /\ lastProbe = "true") =>
          /\ pc = "done" /\ outcome = "returned"
          /\ spawns = 1
          /\ lastEvent = "probe_true"
          /\ ~ENABLED LifecycleStep
    /\ (op = "start" /\ outcome = "returned" /\ nProbes > 1) =>
          spawns = 1 /\ lastProbe = "true"

\* C3 witness: start() returned after at least one failed probe and sleep.
C3_Witness ==
    /\ op = "start" /\ pc = "done" /\ outcome = "returned"
    /\ spawns = 1 /\ nSleeps > 0 /\ lastProbe = "true"

\* C4: if every liveness probe reports not running, a start() that was
\* called ends by raising the start Timeout, after exactly one spawn, on a
\* clock reading past timeout_time, which is at least timeout seconds after
\* the call; it never returns normally (the Timeout is final).
C4_StartTimesOut ==
    ([](is_running(port) = "false")) =>
        [](op = "start" =>
            <>[](/\ pc = "done" /\ outcome = "StartTimeout"
                 /\ spawns = 1
                 /\ reading > timeout_time /\ timeout_time >= timeout))

\* C4 witness: start() raised the Timeout after probing every two seconds.
C4_Witness ==
    /\ op = "start" /\ pc = "done" /\ outcome = "StartTimeout"
    /\ spawns = 1 /\ reading > timeout_time
    /\ nSleeps >= (timeout - MaxDrift) \div SleepSecs

\* C5: start() whose first probe is true, and shutdown() whose first probe
\* is false, return normally at once: no spawn, no remote shutdown call, no
\* deadline, no further probe and no sleep.
C5_MatchingStateIsNoOp ==
    /\ (op = "start" /\ nProbes = 1 /\ lastProbe = "true") =>
          /\ pc = "done" /\ outcome = "returned"
          /\ spawns = 0 /\ nSleeps = 0 /\ timeout_time = 0
          /\ ~ENABLED LifecycleStep
    /\ (op = "shutdown" /\ nProbes = 1 /\ lastProbe = "false") =>
          /\ pc = "done" /\ outcome = "returned"
          /\ shutdownCalls = 0 /\ nSleeps = 0 /\ timeout_time = 0
          /\ ~ENABLED LifecycleStep
    /\ (op = "start" /\ spawns = 0 /\ pc = "done") => nProbes = 1
    /\ (op = "shutdown" /\ shutdownCalls = 0 /\ pc = "done") => nProbes = 1

\* C5 witness: start() returned on its first probe, the daemon running.
C5_Witness ==
    /\ op = "start" /\ pc = "done" /\ outcome = "returned"
    /\ nProbes = 1 /\ probedPort = ZapDaemon

\* C6: shutdown() called on a running daemon makes the remote shutdown call
\* exactly once, before any probe of the wait; it returns normally only on
\* a probe that reported not running; and a probe that reported running
\* followed by a clock reading past timeout_time ends it with the shutdown
\* Timeout, never with a sleep or a return.
C6_ShutdownWaits ==
    op = "shutdown" =>
        /\ shutdownCalls <= 1
        /\ (nProbes = 1 /\ lastProbe = "true") =>
              \/ pc = "shutdown_call" /\ shutdownCalls = 0
              \/ pc \in {"shutdown_deadline", "shutdown_wait"} /\ shutdownCalls = 1
        /\ nProbes >= 2 => shutdownCalls = 1
        /\ (outcome = "returned" /\ shutdownCalls = 1) =>
              lastProbe = "false" /\ lastEvent = "probe_false" /\ nProbes >= 2
        /\ (lastEvent \in {"deadline_ok", "deadline_passed"} /\ reading > timeout_time) =>
              pc = "done" /\ outcome = "ShutdownTimeout" /\ lastProbe = "true"
        /\ outcome = "ShutdownTimeout" =>
              lastEvent = "deadline_passed" /\ reading > timeout_time
        /\ pc = "shutdown_sleep" => lastEvent = "deadline_ok" /\ reading <= timeout_time

\* C6 witness: shutdown() returned after the call, a wait and a false probe.
C6_Witness ==
    /\ op = "shutdown" /\ pc = "done" /\ outcome = "returned"
    /\ shutdownCalls = 1 /\ nSleeps > 0 /\ lastProbe = "false"

\* The answer of is_running() that keeps the wait of op going.
NotYet(o) == IF o = "start" THEN "false" ELSE "true"

\* C20: in the waits of start() and shutdown() the clock is read against
\* the deadline only directly after a probe that reported the awaited state
\* not reached; a Timeout is raised only on such a reading strictly greater
\* than timeout_time (the start of the wait plus timeout); every sleep
\* follows a failed probe and a reading not past the deadline; and a probe
\* that reports the awaited state ends the wait with a normal return, also
\* when the deadline has passed by then.
C20_DeadlineOnlyAfterFailedProbe ==
    (op \in {"start", "shutdown"} /\ timeout_time > 0) =>
        /\ pc \in {"start_timecheck", "shutdown_timecheck"} =>
              lastEvent = ProbeEvent(NotYet(op)) /\ lastProbe = NotYet(op)
        /\ lastEvent \in {"deadline_ok", "deadline_passed"} => lastProbe = NotYet(op)
        /\ outcome \in {"StartTimeout", "ShutdownTimeout"} =>
              /\ outcome = (IF op = "start" THEN "StartTimeout" ELSE "ShutdownTimeout")
              /\ lastEvent = "deadline_passed" /\ lastProbe = NotYet(op)
              /\ reading > timeout_time
        /\ lastEvent = "deadline_passed" <=> outcome \in {"StartTimeout", "ShutdownTimeout"}
        /\ lastEvent = "deadline_ok" <=> pc \in {"start_sleep", "shutdown_sleep"}
        /\ lastEvent \in {"deadline_ok", "sleep"} =>
              lastProbe = NotYet(op) /\ reading <= timeout_time
        /\ nSleeps > 0 => lastProbe # "none"
        /\ (lastEvent \in {"probe_true", "probe_false"} /\ lastProbe # NotYet(op)) =>
              pc = "done" /\ outcome = "returned"

\* C20 witness: start() returned on a true probe made after the deadline.
C20_Witness ==
    /\ op = "start" /\ pc = "done" /\ outcome = "returned"
    /\ spawns = 1 /\ lastEvent = "probe_true"
    /\ nSleeps > 0 /\ now > timeout_time

\* C7 as claimed: is_running returns false only when the connection failed,
\* true only when it succeeded with the marker, and raises PortConflict
\* when it succeeded without the marker; start() and shutdown() whose first
\* probe met a foreign process fail with PortConflict and have neither
\* spawned a process nor called the remote shutdown.
C7_ForeignNeverNotRunning ==
    /\ lastProbe = "false" => ~probedPort.connects
    /\ lastProbe = "true" => probedPort.connects /\ HasMarker(probedPort)
    /\ (nProbes > 0 /\ IsForeign(probedPort)) => lastProbe = "raise"
    /\ (nProbes = 1 /\ IsForeign(probedPort)) =>
          /\ pc = "done" /\ outcome = "PortConflict"
          /\ spawns = 0 /\ shutdownCalls = 0

(***************************************************************************)
(* Claims about the scan jobs                                              *)
(***************************************************************************)
ScanOps == {"run_spider", "run_active_scan"}

\* C8: run_spider and run_active_scan return normally only when the sample
\* their last loop condition tested was exactly 100, and after a test of a
\* sample below 100 they are still in the loop (logging, sleeping or about
\* to sample again), with no outcome yet.
C8_CompleteOnlyAt100 ==
    op \in ScanOps =>
        /\ outcome = "returned" => everProbed /\ tested = 100
        /\ (everProbed /\ tested < 100) =>
              /\ outcome = "none"
              /\ pc \in {"spider_log", "spider_sleep", "spider_cond",
                         "ascan_log", "ascan_sleep", "ascan_cond"}

\* C8 witness: a scan returned after a test below 100 and a sleep.
C8_Witness ==
    /\ op \in ScanOps /\ pc = "done" /\ outcome = "returned"
    /\ everSlept /\ tested = 100

\* C9: the scan jobs never fail with a Timeout; while the status stays
\* below 100 for ever they do not return; and if the status from some point
\* on is 100 for ever, a called run_spider returns normally, and so does a
\* run_active_scan whose scan the engine accepted (it has reached its loop).
C9_ScansWaitUnbounded ==
    /\ [](op \in ScanOps =>
            outcome \notin {"Timeout", "StartTimeout", "ShutdownTimeout"})
    /\ ([](int(spiderStatus) < 100)) =>
            [](op = "run_spider" => outcome = "none")
    /\ ([](int(ascanStatus) < 100)) =>
            [](op = "run_active_scan" => outcome # "returned")
    /\ (<>[](int(spiderStatus) = 100)) =>
            [](op = "run_spider" => <>(pc = "done" /\ outcome = "returned"))
    /\ (<>[](int(ascanStatus) = 100)) =>
            [](pc = "ascan_cond" => <>(pc = "done" /\ outcome = "returned"))

\* C9 witness: a spider is still waiting after a sleep, the status below 100.
C9_Witness ==
    /\ op = "run_spider" /\ pc = "spider_cond" /\ everSlept
    /\ int(spiderStatus) < 100 /\ outcome = "none"

\* C10: once ascan.scan() has answered an empty identifier, run_active_scan
\* fails with ScanStartFailed at once: it has made no status probe, written
\* no progress line and not slept; and it raises ScanStartFailed for no
\* other identifier.
C10_EmptyIdFailsAtOnce ==
    op = "run_active_scan" =>
        /\ pc = "ascan_check" => ~everProbed /\ ~everLogged /\ ~everSlept
        /\ (pc \notin {"idle", "ascan_scan", "ascan_check"} /\ scan_id = "") =>
              /\ pc = "done" /\ outcome = "ScanStartFailed"
              /\ ~everProbed /\ ~everLogged /\ ~everSlept
              /\ ~ENABLED ScanStep
        /\ outcome = "ScanStartFailed" => scan_id = ""

\* C10 witness: the engine rejected the scan and run_active_scan has failed.
C10_Witness ==
    /\ op = "run_active_scan" /\ pc = "done" /\ outcome = "ScanStartFailed"
    /\ scan_id = ""

\* C19: in run_spider and run_active_scan each polling iteration takes a
\* single status sample: the progress value logged before a sleep is the
\* sample the loop condition tested, so it is below 100, and the iteration
\* has made one status probe and no more, also when the engine's status
\* changes meanwhile.
C19_SingleSamplePerIteration ==
    op \in ScanOps =>
        /\ iterProbes <= 1
        /\ pc \in {"spider_sleep", "ascan_sleep"} =>
              /\ logged = tested
              /\ logged < 100

(***************************************************************************)
(* Claims about the scanner selection                                      *)
(***************************************************************************)
\* The ids a token stands for: a group's ids, every scanner for 'all', or
\* the id itself.
TokenIds(t) ==
    IF t = tok_all THEN Registered
    ELSE IF t \in DOMAIN scanner_group_map THEN Range(scanner_group_map[t])
    ELSE {t}

SelectionIds(sel) == UNION {TokenIds(sel[i]) : i \in 1..Len(sel)}

\* Only known group names and digit-only ids.
ValidSelection(sel) ==
    \A i \in 1..Len(sel) : sel[i] \in scanner_groups \/ isdigit(sel[i])

\* C1: enable_scanners(selection) with only known group names and
\* digit-only ids returns normally, and when no other client has changed
\* the scanners meanwhile the enabled set is then exactly the union of the
\* named groups' ids and the listed ids, whatever was enabled before; it is
\* every registered scanner when the selection holds 'all', and exactly
\* {40018, 40099} for ['sqli', '40099'].
C1_EnabledIsExactlySelection ==
    (op = "enable_scanners" /\ pc = "done" /\ ValidSelection(scanners)) =>
        /\ outcome = "returned"
        /\ oob = 0 =>
            /\ enabled = SelectionIds(scanners)
            /\ tok_all \in Range(scanners) => enabled = Registered
            /\ scanners = <<tok_sqli, id40099>> => enabled = {id40018, id40099}

\* C1 witness: enable_scanners(['sqli', '40099']) has returned undisturbed.
C1_Witness ==
    /\ op = "enable_scanners" /\ pc = "done" /\ outcome = "returned" /\ oob = 0
    /\ scanners = <<tok_sqli, id40099>>
    /\ enabled = {id40018, id40099}

\* C2: enable_scanners([]) makes the disable-all call and no other remote
\* call (no enable-all, no enable-by-ids, not even with an empty batch) and
\* returns normally; with no other client interfering no scanner is enabled
\* afterwards, whatever was enabled before.
C2_EmptySelectionDisablesAll ==
    (op = "enable_scanners" /\ scanners = <<>>) =>
        /\ pc # "es_disable" => calls = <<DisableAllCall>>
        /\ pc = "done" =>
            /\ outcome = "returned"
            /\ oob = 0 => enabled = {}

\* C2 witness: enable_scanners([]) has returned undisturbed.
C2_Witness ==
    /\ op = "enable_scanners" /\ scanners = <<>>
    /\ pc = "done" /\ outcome = "returned" /\ oob = 0
    /\ calls = <<DisableAllCall>> /\ enabled = {}

\* C11: enable_scanners_by_group with a name that is neither 'all' nor one
\* of 'sqli', 'xss', 'xss_reflected', 'xss_persistent' fails with
\* UnknownGroup, never returns normally, makes no remote call and leaves
\* the enabled scanners as they were, and its message lists exactly 'all'
\* and those four names; with one of the five names it does not fail.
C11_KnownGroupNames ==
    {tok_all, tok_sqli, tok_xss, tok_xss_reflected, tok_xss_persistent}

C11_UnknownGroupIsAnError ==
    /\ [](op = "enable_scanners_by_group" /\ pc = "done" =>
            IF group_arg \in C11_KnownGroupNames
            THEN outcome = "returned" /\ Len(calls) = 1
            ELSE /\ outcome = "UnknownGroup"
                 /\ calls = <<>>
                 /\ errorGroups = C11_KnownGroupNames)
    /\ [][(op = "enable_scanners_by_group"
            /\ group_arg \notin C11_KnownGroupNames) => enabled' = enabled]_vars

\* C11 witness: enable_scanners_by_group('not-a-group') has failed, with
\* scanners enabled in the engine.
C11_Witness ==
    /\ op = "enable_scanners_by_group" /\ pc = "done"
    /\ group_arg = tok_not_a_group /\ outcome = "UnknownGroup"
    /\ enabled = {id40012, id40099} /\ calls = <<>>

(***************************************************************************)
(* Claims about the alerts                                                 *)
(***************************************************************************)
\* The numeric severity of the four known labels.
Severity(label) ==
    CASE label = "Informational" -> 1
      [] label = "Low"           -> 2
      [] label = "Medium"        -> 3
      [] label = "High"          -> 4

KnownSeverities == {"Informational", "Low", "Medium", "High"}

AllKnown(as) == \A i \in 1..Len(as) : as[i].risk \in KnownSeverities

\* C12: on findings with known labels and a known threshold, alerts(level)
\* returns exactly the findings whose severity is at least the severity of
\* level, each once; and whatever alerts(b) returns for a threshold b at
\* least as severe is among them (monotonic filtering).
C12_MonotonicFiltering ==
    (op = "alerts" /\ pc = "done" /\ AllKnown(findings)
        /\ alert_level \in KnownSeverities) =>
        /\ outcome = "returned"
        /\ Range(result) =
             {f \in Range(findings) : Severity(f.risk) >= Severity(alert_level)}
        /\ Len(result) = Cardinality(Range(result))
        /\ \A b \in KnownSeverities :
             Severity(alert_level) <= Severity(b) =>
                /\ ~alerts(findings, b).raises
                /\ Range(alerts(findings, b).value) \subseteq Range(result)

\* C12 witness: alerts('Low') kept some findings and dropped others.
C12_Witness ==
    /\ op = "alerts" /\ pc = "done" /\ outcome = "returned"
    /\ alert_level = "Low" /\ AllKnown(findings)
    /\ Len(result) > 0 /\ Len(result) < Len(findings)
    /\ \E i \in 1..Len(result) : result[i].risk = "Low"

\* C13: the sequence alerts() returns is sorted non-increasing by severity.
C13_SortedBySeverity ==
    (op = "alerts" /\ pc = "done" /\ outcome = "returned") =>
        \A i, j \in 1..Len(result) :
            i < j => Severity(result[i].risk) >= Severity(result[j].risk)

\* C13 witness: alerts() returned findings of several severities in another
\* order than the engine gave them.
C13_Witness ==
    /\ op = "alerts" /\ pc = "done" /\ outcome = "returned"
    /\ Len(findings) = 3 /\ Len(result) = 3
    /\ findings[1].risk = "Low" /\ findings[3].risk = "High"
    /\ result[1].risk = "High" /\ result[3].risk = "Low"

\* C14: when a finding carries a label outside the four known ones,
\* alerts() fails for every threshold and returns no list: never a result
\* that leaves the finding out.
C14_UnknownLabelIsAnError ==
    (op = "alerts" /\ pc = "done" /\ ~AllKnown(findings)) =>
        /\ outcome = "KeyError"
        /\ result = <<>>

\* C14 witness: alerts('High') failed on findings labelled High and Critical.
C14_Witness ==
    /\ op = "alerts" /\ pc = "done" /\ outcome = "KeyError"
    /\ alert_level = "High"
    /\ \E i, j \in 1..Len(findings) :
          findings[i].risk = "High" /\ findings[j].risk = "Critical"

(***************************************************************************)
(* Claims about the order of enable_scanners' remote calls                 *)
(***************************************************************************)
IsGroupToken(t) == t \in {tok_all, tok_sqli, tok_xss, tok_xss_reflected, tok_xss_persistent}

\* The call a group token stands for: enable-all for 'all', enable-by-ids
\* with the group's ids otherwise.
GroupCallOf(t) ==
    IF t = tok_all THEN [api |-> "enable_all_scanners", ids |-> <<>>]
    ELSE [api |-> "enable_scanners", ids |-> join(scanner_group_map[t])]

\* One call per group token of sel, in token order.
GroupCalls(sel) ==
    LET g == SelectSeq(sel, IsGroupToken) IN [i \in 1..Len(g) |-> GroupCallOf(g[i])]

\* The one batched call with the digit-only tokens of sel, if there are any.
BatchCall(sel) ==
    LET d == SelectSeq(sel, isdigit) IN
    IF d = <<>> THEN <<>> ELSE <<[api |-> "enable_scanners", ids |-> join(d)]>>

DisableAllFirst == <<[api |-> "disable_all_scanners", ids |-> <<>>]>>

\* C17: the remote calls of enable_scanners come in a fixed order: first
\* exactly one disable-all; then one call per group token, in token order;
\* then, last and only when the selection holds a digit-only token, exactly
\* one enable-by-ids call carrying all digit-only tokens in the order given.
\* Nothing is enabled before the disable-all and no id is enabled before the
\* loop has ended.
C17_CallOrder ==
    op = "enable_scanners" =>
        /\ pc = "es_disable" => calls = <<>>
        /\ pc = "es_loop" =>
              calls = DisableAllFirst \o GroupCalls(SubSeq(scanners, 1, idx))
        /\ (pc = "done" /\ outcome = "returned") =>
              calls = DisableAllFirst \o GroupCalls(scanners) \o BatchCall(scanners)
        /\ calls # <<>> =>
              /\ calls[1].api = "disable_all_scanners"
              /\ \A i \in 2..Len(calls) : calls[i].api # "disable_all_scanners"

\* C17 witness: enable_scanners(['40099', 'xss', '40018']) has returned
\* with the group's call before the one batch of both ids.
C17_Witness ==
    /\ op = "enable_scanners" /\ pc = "done" /\ outcome = "returned"
    /\ scanners = <<id40099, tok_xss, id40018>>
    /\ Len(calls) = 3
    /\ calls[2] = GroupCallOf(tok_xss)
    /\ calls[3] = [api |-> "enable_scanners", ids |-> join(<<id40099, id40018>>)]

\* The position of the first token that is neither a group nor digit-only
\* (0 when there is none).
FirstInvalid(sel) ==
    LET bad == {i \in 1..Len(sel) : ~IsGroupToken(sel[i]) /\ ~isdigit(sel[i])} IN
    IF bad = {} THEN 0 ELSE CHOOSE i \in bad : \A j \in bad : i <= j

\* The ids of the group tokens of sel.
GroupIds(sel) ==
    UNION {TokenIds(sel[i]) : i \in {j \in 1..Len(sel) : IsGroupToken(sel[j])}}

\* C18: enable_scanners with a token that is neither a group nor digit-only
\* fails with InvalidScanner after a partial effect: the disable-all and the
\* calls of the groups before that token have been made and nothing else,
\* no batch of ids before or after; no token after it is looked at; and
\* with no other client interfering the enabled set is exactly the union of
\* the groups before that token.
C18_InvalidTokenPartialEffect ==
    (op = "enable_scanners" /\ pc = "done") =>
        /\ outcome = "InvalidScanner" <=> FirstInvalid(scanners) # 0
        /\ outcome = "InvalidScanner" =>
            LET k == FirstInvalid(scanners) IN
            /\ idx = k
            /\ calls = DisableAllFirst \o GroupCalls(SubSeq(scanners, 1, k - 1))
            /\ oob = 0 => enabled = GroupIds(SubSeq(scanners, 1, k - 1))

\* C18 witness: enable_scanners(['40099', 'sqli', '40x']) has failed
\* with only the group enabled.
C18_Witness ==
    /\ op = "enable_scanners" /\ pc = "done" /\ outcome = "InvalidScanner" /\ oob = 0
    /\ scanners = <<id40099, tok_sqli, tok_mixed>>
    /\ idx = 3
    /\ enabled = {id40018}
    /\ calls = DisableAllFirst \o <<GroupCallOf(tok_sqli)>>

(***************************************************************************)
(* Claims about the exclusions and the sessions                            *)
(***************************************************************************)
\* The three exclusion calls with pattern p, in the order of the code.
ThreeExclusions(p) ==
    <<ExcludeCall("core.exclude_from_proxy", p),
      ExcludeCall("spider.exclude_from_scan", p),
      ExcludeCall("ascan.exclude_from_scan", p)>>

\* C15: exclude_from_all with a pattern that does not compile (such as an
\* unterminated character set) fails with InvalidPattern having made no
\* remote call; with a pattern that compiles it calls the proxy, spider and
\* active-scan exclusion endpoints once each, in that order, with that
\* pattern, and never fails with InvalidPattern.
C15_InvalidPatternBeforeAnyCall ==
    op = "exclude_from_all" =>
        /\ \E n \in 0..3 : exclCalls = SubSeq(ThreeExclusions(exclude_regex), 1, n)
        /\ pc = "excl_compile" => exclCalls = <<>>
        /\ pc = "done" =>
            IF CompileRaises(exclude_regex)
            THEN outcome = "InvalidPattern" /\ exclCalls = <<>>
            ELSE outcome = "returned" /\ exclCalls = ThreeExclusions(exclude_regex)
        /\ (pc = "done" /\ exclude_regex \in {<<"[">>, <<"[", "a">>, <<"*">>}) =>
              outcome = "InvalidPattern"
        /\ (pc = "done" /\ exclude_regex \in {<<>>, <<"a">>, <<"[", "a", "]">>, <<"a", "*">>}) =>
              outcome = "returned"

\* C15 witness: exclude_from_all('[a') has failed without a remote call.
C15_Witness ==
    /\ op = "exclude_from_all" /\ pc = "done" /\ outcome = "InvalidPattern"
    /\ exclude_regex = <<"[", "a">> /\ exclCalls = <<>>

\* C16: load_session with a path at which os.path.isfile found no file
\* fails with SessionNotFound and makes no remote call; the remote load
\* call is made at most once, with that path, and only after the check found
\* a file.
C16_MissingSessionFileIsAnError ==
    op = "load_session" =>
        /\ pc = "ls_check" => sessionCalls = <<>> /\ statKind = "unseen"
        /\ (pc # "ls_check" /\ statKind # "file") =>
              /\ pc = "done" /\ outcome = "SessionNotFound"
              /\ sessionCalls = <<>>
        /\ outcome = "SessionNotFound" => statKind \in {"none", "dir"}
        /\ sessionCalls # <<>> =>
              /\ statKind = "file"
              /\ pc = "done" /\ outcome = "returned"
              /\ sessionCalls = <<[api |-> "core.load_session", path |-> file_path]>>

\* C16 witness: load_session('/nonexistent/path') has failed, nothing there.
C16_Witness ==
    /\ op = "load_session" /\ pc = "done" /\ outcome = "SessionNotFound"
    /\ file_path = "/nonexistent/path" /\ statKind = "none"
    /\ sessionCalls = <<>>

=============================================================================
